---- MODULE Spec2Model ----
(***************************************************************************)
(* Model of RemediationEngine (src/main.py): the response parser           *)
(* parse_llm_response (fence extraction, strict JSON decoding, the manual  *)
(* fallback scan and the fixed_code sanitizer), validate_fixed_code and    *)
(* the clone_and_fix pipeline.                                             *)
(*                                                                         *)
(* A Python str is a sequence of one-character strings; Python's 0-based   *)
(* index i is position i+1 of the sequence.  str.find, str.rfind and       *)
(* slicing follow Python's index adjustment (negative indexes count from   *)
(* the end, out-of-range indexes are clamped), because the code relies on  *)
(* it whenever a find returns -1.                                          *)
(***************************************************************************)
EXTENDS Integers, Sequences, FiniteSets, TLC

(***************************************************************************)
(* Python str primitives                                                   *)
(***************************************************************************)
SetMin(S) ==
    CHOOSE x \in S : \A y \in S : x <= y

SetMax(S) ==
    CHOOSE x \in S : \A y \in S : x >= y

\* index adjustment of slices and of the start/end arguments of find/rfind
Adj(i, n) ==
    IF i < 0 THEN (IF i + n < 0 THEN 0 ELSE i + n)
    ELSE IF i > n THEN n ELSE i

\* s[a:b]
Slice(s, a, b) ==
    LET lo == Adj(a, Len(s))
        hi == Adj(b, Len(s))
    IN  IF lo >= hi THEN <<>> ELSE SubSeq(s, lo + 1, hi)

\* sub occurs in s at 0-based index i
MatchAt(s, sub, i) ==
    /\ i >= 0
    /\ i + Len(sub) <= Len(s)
    /\ \A k \in 1..Len(sub) : s[i + k] = sub[k]

Occurrences(s, sub, start, end) ==
    LET lo == Adj(start, Len(s))
        hi == Adj(end, Len(s))
    IN  {i \in lo..(hi - Len(sub)) : MatchAt(s, sub, i)}

\* s.find(sub, start)
Find(s, sub, start) ==
    LET occ == Occurrences(s, sub, start, Len(s))
    IN  IF occ = {} THEN -1 ELSE SetMin(occ)

\* s.rfind(sub, start, end)
RFind(s, sub, start, end) ==
    LET occ == Occurrences(s, sub, start, end)
    IN  IF occ = {} THEN -1 ELSE SetMax(occ)

\* sub in s
Contains(s, sub) ==
    Find(s, sub, 0) # -1

Whitespace ==
    {" ", "\n", "\t", "\r"}

\* s.strip()
Strip(s) ==
    LET keep == {i \in 1..Len(s) : s[i] \notin Whitespace}
    IN  IF keep = {} THEN <<>> ELSE SubSeq(s, SetMin(keep), SetMax(keep))

\* s.rstrip("/")
RStripSlash(s) ==
    LET keep == {i \in 1..Len(s) : s[i] # "/"}
    IN  IF keep = {} THEN <<>> ELSE SubSeq(s, 1, SetMax(keep))

UpperCase ==
    <<"A", "B", "C", "D", "E", "F", "G", "H", "I", "J", "K", "L", "M",
      "N", "O", "P", "Q", "R", "S", "T", "U", "V", "W", "X", "Y", "Z">>

LowerCase ==
    <<"a", "b", "c", "d", "e", "f", "g", "h", "i", "j", "k", "l", "m",
      "n", "o", "p", "q", "r", "s", "t", "u", "v", "w", "x", "y", "z">>

\* s.lower()
Lower(s) ==
    [i \in 1..Len(s) |->
        IF \E k \in 1..26 : UpperCase[k] = s[i]
        THEN LowerCase[CHOOSE k \in 1..26 : UpperCase[k] = s[i]]
        ELSE s[i]]

RECURSIVE Replace(_, _, _)
\* s.replace(old, new): every non-overlapping occurrence, left to right
Replace(s, old, new) ==
    LET i == Find(s, old, 0)
    IN  IF i = -1 THEN s
        ELSE Slice(s, 0, i) \o new \o Replace(Slice(s, i + Len(old), Len(s)), old, new)

RECURSIVE Split(_, _)
\* s.split(sep)
Split(s, sep) ==
    LET i == Find(s, sep, 0)
    IN  IF i = -1 THEN <<s>>
        ELSE <<Slice(s, 0, i)>> \o Split(Slice(s, i + Len(sep), Len(s)), sep)

RECURSIVE Flatten(_)
\* concatenation of a sequence of strings
Flatten(ss) ==
    IF ss = <<>> THEN <<>> ELSE Head(ss) \o Flatten(Tail(ss))

RECURSIVE Join(_, _)
\* sep.join(ss)
Join(sep, ss) ==
    IF ss = <<>> THEN <<>>
    ELSE IF Len(ss) = 1 THEN ss[1]
    ELSE ss[1] \o sep \o Join(sep, Tail(ss))

\* every concatenation of at most n strings of the set pieces
Concats(pieces, n) ==
    {Flatten(ps) : ps \in UNION {[1..k -> pieces] : k \in 0..n}}

(***************************************************************************)
(* Literals of the source                                                  *)
(***************************************************************************)
\* chr(96), the backtick; a one-character string like every other element
chr96 ==
    "chr(96)"

\* line 75: chr(96) * 3
triple_backtick ==
    <<chr96, chr96, chr96>>

FenceJson ==
    <<chr96, chr96, chr96, "j", "s", "o", "n">>

FencePython ==
    <<chr96, chr96, chr96, "p", "y", "t", "h", "o", "n">>

K_has_issues ==
    <<"h", "a", "s", "_", "i", "s", "s", "u", "e", "s">>

K_issues_found ==
    <<"i", "s", "s", "u", "e", "s", "_", "f", "o", "u", "n", "d">>

K_fixed_code ==
    <<"f", "i", "x", "e", "d", "_", "c", "o", "d", "e">>

QUOTE ==
    <<"\"">>

\* the key as it is written in a payload, with its quotes
Quoted(s) ==
    QUOTE \o s \o QUOTE

T_true ==
    <<"t", "r", "u", "e">>

T_false ==
    <<"f", "a", "l", "s", "e">>

T_null ==
    <<"n", "u", "l", "l">>

UrlPrefix ==
    <<"h", "t", "t", "p", "s", ":", "/", "/", "g", "i", "t", "h", "u", "b", ".", "c", "o", "m", "/">>

DotGit ==
    <<".", "g", "i", "t">>

placeholders ==
    << <<"c", "o", "r", "r", "e", "c", "t", "e", "d", " ", "c", "o", "d", "e", " ", "h", "e", "r", "e">>,
       <<"f", "i", "x", "e", "d", " ", "c", "o", "d", "e", " ", "h", "e", "r", "e">>,
       <<"c", "o", "d", "e", " ", "h", "e", "r", "e">>,
       <<"y", "o", "u", "r", " ", "c", "o", "d", "e", " ", "h", "e", "r", "e">>,
       <<"i", "n", "s", "e", "r", "t", " ", "c", "o", "d", "e">>,
       <<"#", " ", "T", "O", "D", "O">> >>

(***************************************************************************)
(* json.loads: strict decoding of a payload into a JSON value.             *)
(* A value is a record: t is its type, s the characters of a str or the    *)
(* digits of a number, b the value of a bool, items the elements of a list *)
(* or the values of a dict, keys the keys of a dict in payload order.      *)
(* The payloads of the model contain no \u escape, no fraction or exponent *)
(* and no NaN or Infinity; everything else is decoded as the decoder does. *)
(***************************************************************************)
JStr(s) ==
    [t |-> "str", s |-> s, b |-> FALSE, items |-> <<>>, keys |-> <<>>]

JNum(digits) ==
    [t |-> "num", s |-> digits, b |-> FALSE, items |-> <<>>, keys |-> <<>>]

JBool(b) ==
    [t |-> "bool", s |-> <<>>, b |-> b, items |-> <<>>, keys |-> <<>>]

JNull ==
    [t |-> "null", s |-> <<>>, b |-> FALSE, items |-> <<>>, keys |-> <<>>]

JList(items) ==
    [t |-> "list", s |-> <<>>, b |-> FALSE, items |-> items, keys |-> <<>>]

JDict(keys, items) ==
    [t |-> "dict", s |-> <<>>, b |-> FALSE, items |-> items, keys |-> keys]

\* the result of a failed decoding step
NoParse ==
    [ok |-> FALSE, v |-> JNull, next |-> 0]

Digits ==
    {"0", "1", "2", "3", "4", "5", "6", "7", "8", "9"}

\* characters a string may not contain unescaped (strict mode)
ControlChars ==
    {"\n", "\t", "\r"}

\* first position at or after i that holds no whitespace
SkipWs(s, i) ==
    LET rest == {j \in i..Len(s) : s[j] \notin Whitespace}
    IN  IF rest = {} THEN Len(s) + 1 ELSE SetMin(rest)

\* the character an escape sequence \e stands for, "" if \e is invalid
Unescaped(e) ==
    CASE e = "\"" -> "\""
      [] e = "\\" -> "\\"
      [] e = "/" -> "/"
      [] e = "n" -> "\n"
      [] e = "t" -> "\t"
      [] e = "r" -> "\r"
      [] e = "b" -> "chr(8)"
      [] e = "f" -> "chr(12)"
      [] OTHER -> ""

RECURSIVE ScanString(_, _, _)
\* the body of a string from position j on, up to its closing quote
ScanString(s, j, acc) ==
    IF j > Len(s) THEN NoParse
    ELSE IF s[j] = "\"" THEN [ok |-> TRUE, v |-> JStr(acc), next |-> j + 1]
    ELSE IF s[j] \in ControlChars THEN NoParse
    ELSE IF s[j] = "\\"
    THEN IF j + 1 > Len(s) \/ Unescaped(s[j + 1]) = "" THEN NoParse
         ELSE ScanString(s, j + 2, Append(acc, Unescaped(s[j + 1])))
    ELSE ScanString(s, j + 1, Append(acc, s[j]))

\* -?(0|[1-9][0-9]*) at position i
ScanNumber(s, i) ==
    LET neg == s[i] = "-"
        d == IF neg THEN i + 1 ELSE i
        stop == SetMin({j \in d..(Len(s) + 1) : j = Len(s) + 1 \/ s[j] \notin Digits})
        last == IF d <= Len(s) /\ s[d] = "0" THEN d + 1 ELSE stop
    IN  IF stop = d THEN NoParse
        ELSE [ok |-> TRUE, v |-> JNum(SubSeq(s, i, last - 1)), next |-> last]

\* the literal word at position i
ScanWord(s, i, word, v) ==
    IF MatchAt(s, word, i - 1) THEN [ok |-> TRUE, v |-> v, next |-> i + Len(word)]
    ELSE NoParse

RECURSIVE ScanValue(_, _)
RECURSIVE ScanItems(_, _, _)
RECURSIVE ScanPairs(_, _, _, _)

\* one JSON value at position i
ScanValue(s, i) ==
    IF i > Len(s) THEN NoParse
    ELSE IF s[i] = "\"" THEN ScanString(s, i + 1, <<>>)
    ELSE IF s[i] = "{"
    THEN LET j == SkipWs(s, i + 1)
         IN  IF j <= Len(s) /\ s[j] = "}"
             THEN [ok |-> TRUE, v |-> JDict(<<>>, <<>>), next |-> j + 1]
             ELSE ScanPairs(s, j, <<>>, <<>>)
    ELSE IF s[i] = "["
    THEN LET j == SkipWs(s, i + 1)
         IN  IF j <= Len(s) /\ s[j] = "]"
             THEN [ok |-> TRUE, v |-> JList(<<>>), next |-> j + 1]
             ELSE ScanItems(s, j, <<>>)
    ELSE IF s[i] = "t" THEN ScanWord(s, i, T_true, JBool(TRUE))
    ELSE IF s[i] = "f" THEN ScanWord(s, i, T_false, JBool(FALSE))
    ELSE IF s[i] = "n" THEN ScanWord(s, i, T_null, JNull)
    ELSE IF s[i] \in Digits \cup {"-"} THEN ScanNumber(s, i)
    ELSE NoParse

\* the elements of a list from position i on, i at the start of an element
ScanItems(s, i, acc) ==
    LET e == ScanValue(s, i)
        j == SkipWs(s, e.next)
    IN  IF ~e.ok \/ j > Len(s) THEN NoParse
        ELSE IF s[j] = "]"
        THEN [ok |-> TRUE, v |-> JList(Append(acc, e.v)), next |-> j + 1]
        ELSE IF s[j] = ","
        THEN ScanItems(s, SkipWs(s, j + 1), Append(acc, e.v))
        ELSE NoParse

\* the members of a dict from position i on, i at the quote of a key
ScanPairs(s, i, keys, items) ==
    IF i > Len(s) \/ s[i] # "\"" THEN NoParse
    ELSE LET k == ScanString(s, i + 1, <<>>)
             c == SkipWs(s, k.next)
         IN  IF ~k.ok \/ c > Len(s) \/ s[c] # ":" THEN NoParse
             ELSE LET e == ScanValue(s, SkipWs(s, c + 1))
                      j == SkipWs(s, e.next)
                  IN  IF ~e.ok \/ j > Len(s) THEN NoParse
                      ELSE IF s[j] = "}"
                      THEN [ok |-> TRUE,
                            v |-> JDict(Append(keys, k.v.s), Append(items, e.v)),
                            next |-> j + 1]
                      ELSE IF s[j] = ","
                      THEN ScanPairs(s, SkipWs(s, j + 1),
                                     Append(keys, k.v.s), Append(items, e.v))
                      ELSE NoParse

\* json.loads(json_str): ok is FALSE where it raises JSONDecodeError
json_loads(json_str) ==
    LET e == ScanValue(json_str, SkipWs(json_str, 1))
    IN  IF e.ok /\ SkipWs(json_str, e.next) > Len(json_str) THEN e
        ELSE NoParse

(***************************************************************************)
(* dict and truth-value operations of Python                               *)
(***************************************************************************)
\* key in d
HasKey(d, key) ==
    \E k \in 1..Len(d.keys) : d.keys[k] = key

\* d[key]; a repeated key keeps its last value
DictGet(d, key) ==
    d.items[SetMax({k \in 1..Len(d.keys) : d.keys[k] = key})]

\* d[key] = v
DictSet(d, key, v) ==
    IF HasKey(d, key)
    THEN JDict(d.keys, [k \in 1..Len(d.keys) |->
                           IF d.keys[k] = key THEN v ELSE d.items[k]])
    ELSE JDict(Append(d.keys, key), Append(d.items, v))

\* bool(v)
Truthy(v) ==
    CASE v.t = "bool" -> v.b
      [] v.t = "null" -> FALSE
      [] v.t = "str" -> v.s # <<>>
      [] v.t = "num" -> \E k \in 1..Len(v.s) : v.s[k] \in Digits \ {"0"}
      [] v.t = "list" -> v.items # <<>>
      [] v.t = "dict" -> v.keys # <<>>


(***************************************************************************)
(* The fixed_code sanitizer of parse_llm_response                          *)
(***************************************************************************)
\* faulty variant: the closing fence is searched from the right, so that the span
\* runs to the last fence marker instead of the next one
sanitize_greedy(code) ==
    IF Contains(code, FencePython)
    THEN LET start == Find(code, FencePython, 0) + 9
             end == RFind(code, triple_backtick, start, Len(code))
         IN  IF end # -1 THEN Strip(Slice(code, start, end)) ELSE code
    ELSE IF Contains(code, triple_backtick)
    THEN LET start == Find(code, triple_backtick, 0) + 3
             end == RFind(code, triple_backtick, start, Len(code))
         IN  IF end # -1 THEN Strip(Slice(code, start, end)) ELSE code
    ELSE code

\* lines 135-144: strip a fence nested inside the fixed_code value
sanitize(code) ==
    IF Contains(code, FencePython)
    THEN LET start == Find(code, FencePython, 0) + 9
             end == Find(code, triple_backtick, start)
         IN  IF end # -1 THEN Strip(Slice(code, start, end)) ELSE code
    ELSE IF Contains(code, triple_backtick)
    THEN LET start == Find(code, triple_backtick, 0) + 3
             end == Find(code, triple_backtick, start)
         IN  IF end # -1 THEN Strip(Slice(code, start, end)) ELSE code
    ELSE code

(***************************************************************************)
(* parse_llm_response                                                      *)
(***************************************************************************)
\* lines 80-89: the payload between the fences, or the whole text
extract_json_str(response_text) ==
    IF Contains(response_text, FenceJson)
    THEN LET start == Find(response_text, FenceJson, 0) + 7
             end == Find(response_text, triple_backtick, start)
         IN  Strip(Slice(response_text, start, end))
    ELSE IF Contains(response_text, triple_backtick)
    THEN LET start == Find(response_text, triple_backtick, 0) + 3
             end == Find(response_text, triple_backtick, start)
         IN  Strip(Slice(response_text, start, end))
    ELSE Strip(response_text)

RECURSIVE scan_issues(_, _)
\* lines 110-118: the quoted substrings of issues_text from current on
scan_issues(issues_text, current) ==
    LET q1 == Find(issues_text, QUOTE, current)
        q2 == Find(issues_text, QUOTE, q1 + 1)
    IN  IF q1 = -1 THEN <<>>
        ELSE IF q2 = -1 THEN <<>>
        ELSE <<JStr(Slice(issues_text, q1 + 1, q2))>> \o scan_issues(issues_text, q2 + 1)

\* lines 98-101
manual_has_issues(json_str) ==
    JDict(<<K_has_issues>>, <<JBool(Contains(Lower(json_str), T_true))>>)

\* lines 103-119
manual_issues_found(json_str, result) ==
    LET issues_start == Find(json_str, Quoted(K_issues_found), 0)
        array_start == Find(json_str, <<"[">>, issues_start)
        array_end == Find(json_str, <<"]">>, array_start)
        issues_text == Slice(json_str, array_start + 1, array_end)
    IN  IF issues_start # -1
        THEN DictSet(result, K_issues_found, JList(scan_issues(issues_text, 0)))
        ELSE result

\* lines 128-131: the three replacements in order, then strip
unescape_fixed_code(fixed_code) ==
    Strip(Replace(Replace(Replace(fixed_code, <<"\\", "n">>, <<"\n">>),
                          <<"\\", "\"">>, <<"\"">>),
                  <<"\\", "\\">>, <<"\\">>))

\* lines 121-131
manual_fixed_code(json_str, result) ==
    LET code_start == Find(json_str, Quoted(K_fixed_code), 0)
        quote_start == Find(json_str, QUOTE, code_start + 13) + 1
        closing_brace == RFind(json_str, <<"}">>, 0, Len(json_str))
        quote_end == RFind(json_str, QUOTE, quote_start, closing_brace)
    IN  IF code_start # -1 /\ quote_start < quote_end
        THEN DictSet(result, K_fixed_code,
                     JStr(unescape_fixed_code(Slice(json_str, quote_start, quote_end))))
        ELSE result

\* lines 96-131: the manual parser used when json.loads raises
manual_parse(json_str) ==
    manual_fixed_code(json_str, manual_issues_found(json_str, manual_has_issues(json_str)))

\* needle in v for a str needle: substring of a str, element of a list, key
\* of a dict; any other v makes the operator raise TypeError (see CanContain)
PyIn(needle, v) ==
    CASE v.t = "str" -> Contains(v.s, needle)
      [] v.t = "list" -> \E k \in 1..Len(v.items) :
                            v.items[k].t = "str" /\ v.items[k].s = needle
      [] v.t = "dict" -> HasKey(v, needle)
      [] OTHER -> FALSE

CanContain(v) ==
    v.t \in {"str", "list", "dict"}

\* lines 133-144 raise: the membership test on a value that is no container,
\* result['fixed_code'] on a list or str, code.find on a list or dict
sanitizer_raises(result) ==
    \/ ~CanContain(result)
    \/ result.t # "dict" /\ PyIn(K_fixed_code, result)
    \/ /\ result.t = "dict"
       /\ HasKey(result, K_fixed_code)
       /\ LET code == DictGet(result, K_fixed_code)
          IN  \/ ~CanContain(code)
              \/ code.t # "str" /\ (PyIn(FencePython, code) \/ PyIn(triple_backtick, code))

\* lines 133-144 on a result for which they do not raise
sanitize_result(result) ==
    IF result.t = "dict" /\ HasKey(result, K_fixed_code)
       /\ DictGet(result, K_fixed_code).t = "str"
    THEN DictSet(result, K_fixed_code, JStr(sanitize(DictGet(result, K_fixed_code).s)))
    ELSE result

\* len(v) is defined
HasLen(v) ==
    v.t \in {"str", "list", "dict"}

\* lines 147-155: the arguments of debug_print are evaluated whether or not
\* debug mode is on; result.get needs a dict, len a sized value, and
\* result['issues_found'][:3] a str or list
debug_args_raise(result) ==
    \/ result.t # "dict"
    \/ HasKey(result, K_issues_found) /\ ~HasLen(DictGet(result, K_issues_found))
    \/ HasKey(result, K_fixed_code) /\ ~HasLen(DictGet(result, K_fixed_code))
    \/ /\ ~HasKey(result, K_fixed_code) \/ ~Truthy(DictGet(result, K_fixed_code))
       /\ HasKey(result, K_issues_found)
       /\ DictGet(result, K_issues_found).t = "dict"

\* lines 73-157; raised is TRUE where the call ends with an exception,
\* fallback where the manual parser produced the result
parse_llm_response(response_text) ==
    LET json_str == extract_json_str(response_text)
        decoded == json_loads(json_str)
        result == IF decoded.ok THEN decoded.v ELSE manual_parse(json_str)
    IN  IF sanitizer_raises(result) \/ debug_args_raise(sanitize_result(result))
        THEN [raised |-> TRUE, fallback |-> ~decoded.ok, result |-> JNull]
        ELSE [raised |-> FALSE, fallback |-> ~decoded.ok, result |-> sanitize_result(result)]


(***************************************************************************)
(* validate_fixed_code                                                     *)
(***************************************************************************)
\* the first placeholder the loop of lines 174-177 stops at, 0 if none
FirstPlaceholder(original_code, fixed_code) ==
    LET fixed_lower == Lower(fixed_code)
        hits == {k \in 1..Len(placeholders) :
                    /\ Contains(fixed_lower, placeholders[k])
                    /\ ~Contains(Lower(original_code), placeholders[k])}
    IN  IF hits = {} THEN 0 ELSE SetMin(hits)

\* line 180: len(fixed_code) < len(original_code) * 0.5, exact in floating
\* point for every length a str can have
TooShort(original_code, fixed_code) ==
    2 * Len(fixed_code) < Len(original_code)

\* faulty variant: the threshold computed with integer division
validate_floor_half(original_code, fixed_code, compiles) ==
    IF FirstPlaceholder(original_code, fixed_code) # 0
    THEN [raised |-> FALSE, ok |-> FALSE, reason |-> "placeholder"]
    ELSE IF Len(fixed_code) < Len(original_code) \div 2
    THEN [raised |-> FALSE, ok |-> FALSE, reason |-> "too_short"]
    ELSE IF compiles = "ok"
    THEN [raised |-> FALSE, ok |-> TRUE, reason |-> "none"]
    ELSE IF compiles = "SyntaxError"
    THEN [raised |-> FALSE, ok |-> FALSE, reason |-> "syntax"]
    ELSE [raised |-> TRUE, ok |-> FALSE, reason |-> "none"]

\* compiles is the outcome of compile(fixed_code, filename, exec):
\* "ok", "SyntaxError", or "OtherError" for an exception the except clause
\* of line 189 does not catch (ValueError on a null byte, RecursionError)
validate_fixed_code(original_code, fixed_code, compiles) ==
    IF FirstPlaceholder(original_code, fixed_code) # 0
    THEN [raised |-> FALSE, ok |-> FALSE, reason |-> "placeholder"]
    ELSE IF TooShort(original_code, fixed_code)
    THEN [raised |-> FALSE, ok |-> FALSE, reason |-> "too_short"]
    ELSE IF compiles = "ok"
    THEN [raised |-> FALSE, ok |-> TRUE, reason |-> "none"]
    ELSE IF compiles = "SyntaxError"
    THEN [raised |-> FALSE, ok |-> FALSE, reason |-> "syntax"]
    ELSE [raised |-> TRUE, ok |-> FALSE, reason |-> "none"]

(***************************************************************************)
(* Repository resolution of clone_and_fix                                  *)
(***************************************************************************)
\* lines 197-199
resolve_repo_parts(repo_url) ==
    Split(Replace(Replace(RStripSlash(repo_url), DotGit, <<>>), UrlPrefix, <<>>), <<"/">>)

(***************************************************************************)
(* Inputs                                                                  *)
(***************************************************************************)
\* most elements of an issues_found array in a generated payload
MaxIssues ==
    2

\* most pieces concatenated into an input of the sanitizer
MaxPieces ==
    4

\* most pieces concatenated into an input of validate_fixed_code
MaxValPieces ==
    2

\* the value analyze_code returns when the service call fails (line 71)
None ==
    <<"None">>

Field(key, text) ==
    Quoted(key) \o <<":", " ">> \o text

\* an object with the given members (empty members are left out) and closer
Object(members, closer) ==
    <<"{">> \o Join(<<",", " ">>, SelectSeq(members, LAMBDA m : m # <<>>)) \o closer

\* texts of issue descriptions
IssueTexts ==
    {<<"a">>, <<"b">>, <<"a", "]", "b">>}

\* elements of an issues_found array: quoted descriptions and a number
IssueElems ==
    {Quoted(e) : e \in IssueTexts} \cup {<<"1">>}

IssueLists ==
    UNION {[1..k -> IssueElems] : k \in 0..MaxIssues}

ArrayText(elems) ==
    <<"[">> \o Join(<<",", " ">>, elems) \o <<"]">>

HasFields ==
    {<<>>, Field(K_has_issues, T_true), Field(K_has_issues, T_false)}

IssuesFields ==
    {<<>>,
     Field(K_issues_found, <<"5">>),
     Field(K_issues_found, <<"{", "\"", "a", "\"", ":", " ", "1", "}">>)}
    \cup {Field(K_issues_found, ArrayText(es)) : es \in IssueLists}

Code_x ==
    <<"x", "=", "1">>

Code_long ==
    <<"y", " ", "=", " ", "1", ";", " ", "z", " ", "=", " ", "2">>

Code_stub ==
    <<"c", "o", "d", "e", " ", "h", "e", "r", "e">>

FixedFields ==
    {<<>>,
     Field(K_fixed_code, Quoted(Code_x)),
     Field(K_fixed_code, Quoted(<<"p", "(", "\"", "q", "\"", ")">>)),
     Field(K_fixed_code, Quoted(<<"p", "(", "\\", "\"", "q", "\\", "\"", ")", "\\", "n", "x">>)),
     Field(K_fixed_code, QUOTE \o Code_x),
     Field(K_fixed_code, <<>>),
     Field(K_fixed_code, <<"5">>),
     Field(K_fixed_code, T_null),
     Field(K_fixed_code, Quoted(<<>>)),
     Field(K_fixed_code, Quoted(FencePython \o <<"\\", "n">> \o Code_x \o <<"\\", "n">> \o triple_backtick)),
     Field(K_fixed_code, <<"[", "\"", "x", "\"", "]">>)}

Closers ==
    {<<"}">>, <<>>, <<"}", " ", "o", "k">>}

Wrappers ==
    {"plain", "fenced", "unterminated"}

Wrap(w, text) ==
    CASE w = "plain" -> text
      [] w = "fenced" -> FenceJson \o <<"\n">> \o text \o <<"\n">> \o triple_backtick
      [] w = "unterminated" -> FenceJson \o <<"\n">> \o text

\* payloads that are no JSON object
OtherPayloads ==
    {<<"[", "1", "]">>, <<"5">>, Quoted(<<"a">>), T_null, T_true, <<"x">>}

\* the responses SpecParse starts from
Payloads ==
    OtherPayloads
    \cup {Wrap(w, Object(<<h, i, f>>, c)) :
            h \in HasFields, i \in IssuesFields, f \in FixedFields, c \in Closers, w \in Wrappers}
    \cup {Wrap(w, Object(<<f, i, h>>, c)) :
            h \in HasFields, i \in IssuesFields, f \in FixedFields, c \in Closers, w \in Wrappers}

Issues_ab ==
    Field(K_issues_found, ArrayText(<<Quoted(<<"a">>), Quoted(<<"b">>)>>))

\* the responses a run of clone_and_fix may receive
RunResponses ==
    {None, <<>>, <<"[", "1", "]">>,
     Object(<<Field(K_has_issues, T_false), Field(K_issues_found, ArrayText(<<>>)),
              Field(K_fixed_code, Quoted(<<>>))>>, <<"}">>),
     Object(<<Field(K_has_issues, T_true), Issues_ab,
              Field(K_fixed_code, Quoted(Code_x))>>, <<"}">>),
     Object(<<Field(K_has_issues, T_true), Issues_ab,
              Field(K_fixed_code, Quoted(Code_stub))>>, <<"}">>),
     Object(<<Field(K_has_issues, T_true), Issues_ab,
              Field(K_fixed_code, QUOTE \o Code_x)>>, <<>>),
     Object(<<Field(K_has_issues, T_true), Issues_ab,
              Field(K_fixed_code, Quoted(<<"p", "(", "\"", "q", "\"", ")">>))>>, <<"}">>),
     Object(<<Field(K_has_issues, T_true), Field(K_fixed_code, <<>>)>>, <<>>),
     Object(<<Field(K_has_issues, T_true), Field(K_issues_found, ArrayText(<<<<"1">>>>)),
              Field(K_fixed_code, Quoted(Code_x))>>, <<"}">>),
     Object(<<Field(K_has_issues, T_true),
              Field(K_issues_found, <<"{", "\"", "a", "\"", ":", " ", "1", "}">>),
              Field(K_fixed_code, Quoted(Code_x))>>, <<"}">>),
     Object(<<Field(K_has_issues, T_true), Issues_ab,
              Field(K_fixed_code, <<"[", "\"", "x", "\"", "]">>)>>, <<"}">>),
     Object(<<Field(K_has_issues, <<"1">>), Issues_ab,
              Field(K_fixed_code, Quoted(Code_x))>>, <<"}">>),
     Object(<<Field(K_has_issues, <<"0">>), Issues_ab,
              Field(K_fixed_code, Quoted(Code_x))>>, <<"}">>)}

\* contents of the fetched file
Originals ==
    {<<>>, Code_x, Code_long}

SanPieces ==
    {FencePython, triple_backtick, <<chr96>>, <<"a">>, <<" ">>}

SanInputs ==
    Concats(SanPieces, MaxPieces)

ValPieces ==
    {<<"x">>, Code_stub, <<"Y", "o", "u", "r", " ">>, placeholders[6], placeholders[5]}

ValInputs ==
    Concats(ValPieces, MaxValPieces)

Owners ==
    {<<"u">>, <<"m", "y", ".", "g", "i", "t", "h", "u", "b">>}

Names ==
    {<<"r">>, <<"u", ".", "g", "i", "t", "h", "u", "b", ".", "i", "o">>,
     <<"a", ".", "g", "i", "t", "b">>}

Suffixes ==
    {<<>>, DotGit, <<"/">>, DotGit \o <<"/">>}

\* URLs of the form https://github.com/<owner>/<name>[.git][/]
RepoUrls ==
    {UrlPrefix \o o \o <<"/">> \o n \o x : o \in Owners, n \in Names, x \in Suffixes}

\* inputs with fewer than two path segments, or with more
OddUrls ==
    {<<>>, <<"r">>, UrlPrefix \o <<"u">>, UrlPrefix \o <<"u", "/", "r", "/", "t">>,
     UrlPrefix \o <<"u", "/", "r", "/", "/">>}

(***************************************************************************)
(* State                                                                   *)
(***************************************************************************)
VARIABLES
    pc,                \* position of the run of clone_and_fix
    repo_url,          \* the argument repo_url
    repo_parts,        \* repo_parts of line 199
    lookup,            \* the owner/name given to get_repo and clone_from
    temp_dir,          \* the TemporaryDirectory: "none", "held", "released"
    original_content,  \* the file content read at line 222
    analysis,          \* the response of analyze_code
    result,            \* the dict returned by parse_llm_response
    compiles,          \* outcome of compile() inside validate_fixed_code
    verdict,           \* what validate_fixed_code returned
    calls,             \* side-effecting collaborator calls made, in order
    completed,         \* the calls that returned without raising, in order
    san                \* sanitizer inputs and outputs: <<x, s(x), s(s(x))>>

vars ==
    <<pc, repo_url, repo_parts, lookup, temp_dir, original_content, analysis,
      result, compiles, verdict, calls, completed, san>>

NoVerdict ==
    [raised |-> FALSE, ok |-> FALSE, reason |-> "unset"]

\* the side-effecting calls of lines 264-304 in program order
Steps ==
    <<"write", "checkout", "add", "commit", "push", "create_pull">>

Terminal ==
    {"InvalidIdentifier", "FileNotFound", "AnalysisFailed", "ParseFailed", "NoIssues",
     "NoFixProvided", "ValidationRejected", "Failed", "ChangeRequestOpened"}

\* state before the call, for the given argument and position
Start(url, at) ==
    /\ pc = at
    /\ repo_url = url
    /\ repo_parts = <<>>
    /\ lookup = <<>>
    /\ temp_dir = "none"
    /\ original_content = None
    /\ analysis = None
    /\ result = JNull
    /\ compiles = "unset"
    /\ verdict = NoVerdict
    /\ calls = <<>>
    /\ completed = <<>>
    /\ san = <<>>

Init ==
    \E url \in RepoUrls \cup OddUrls : Start(url, "Start")

(***************************************************************************)
(* clone_and_fix                                                           *)
(***************************************************************************)
\* faulty variant: the with block is left without removing the directory
exit_with_leak(dir) ==
    dir

\* line 212: leaving the with block, by return, by exception or at its end,
\* cleans the TemporaryDirectory up
exit_with(dir) ==
    IF dir = "held" THEN "released" ELSE dir

\* a return or exception that ends the run at position at
Finish(at) ==
    /\ pc' = at
    /\ temp_dir' = exit_with(temp_dir)

\* result.get(key, default)
ResultGet(key, default) ==
    IF HasKey(result, key) THEN DictGet(result, key) ELSE default

\* lines 197-205
ResolveRepo ==
    /\ pc = "Start"
    /\ repo_parts' = resolve_repo_parts(repo_url)
    /\ pc' = IF Len(repo_parts') < 2 THEN "InvalidIdentifier" ELSE "RepoResolved"
    /\ UNCHANGED <<repo_url, lookup, temp_dir, original_content, analysis, result,
                   compiles, verdict, calls, completed, san>>

\* line 209: get_repo(owner/repo_name) returns or raises
GetRepo ==
    /\ pc = "RepoResolved"
    /\ lookup' = repo_parts[1] \o <<"/">> \o repo_parts[2]
    /\ \E found \in BOOLEAN : pc' = IF found THEN "RepoFound" ELSE "Failed"
    /\ UNCHANGED <<repo_url, repo_parts, temp_dir, original_content, analysis, result,
                   compiles, verdict, calls, completed, san>>

\* lines 212-224: create the directory, clone into it, read the file
CloneAndRead ==
    /\ pc = "RepoFound"
    /\ \/ /\ \E content \in Originals : original_content' = content
          /\ temp_dir' = "held"
          /\ pc' = "FileFetched"
       \/ /\ \E at \in {"FileNotFound", "Failed"} :
                /\ pc' = at
                /\ temp_dir' = exit_with("held")
          /\ UNCHANGED original_content
    /\ UNCHANGED <<repo_url, repo_parts, lookup, analysis, result, compiles, verdict,
                   calls, completed, san>>

\* lines 226-230
Analyze ==
    /\ pc = "FileFetched"
    /\ \E response \in RunResponses :
          /\ analysis' = response
          /\ IF response = None \/ response = <<>>
             THEN Finish("AnalysisFailed")
             ELSE pc' = "AnalysisReceived" /\ UNCHANGED temp_dir
    /\ UNCHANGED <<repo_url, repo_parts, lookup, original_content, result, compiles,
                   verdict, calls, completed, san>>

\* lines 232-239
Parse ==
    /\ pc = "AnalysisReceived"
    /\ LET parsed == parse_llm_response(analysis)
       IN  IF parsed.raised
           THEN Finish("ParseFailed") /\ UNCHANGED result
           ELSE pc' = "DiagnosisParsed" /\ result' = parsed.result /\ UNCHANGED temp_dir
    /\ UNCHANGED <<repo_url, repo_parts, lookup, original_content, analysis, compiles,
                   verdict, calls, completed, san>>

\* lines 241-243
CheckIssues ==
    /\ pc = "DiagnosisParsed"
    /\ IF ~Truthy(ResultGet(K_has_issues, JBool(FALSE)))
       THEN Finish("NoIssues")
       ELSE pc' = "IssuesReported" /\ UNCHANGED temp_dir
    /\ UNCHANGED <<repo_url, repo_parts, lookup, original_content, analysis, result,
                   compiles, verdict, calls, completed, san>>

\* lines 245-250
CheckFix ==
    /\ pc = "IssuesReported"
    /\ IF ~Truthy(ResultGet(K_fixed_code, JStr(<<>>)))
       THEN Finish("NoFixProvided")
       ELSE pc' = "FixProposed" /\ UNCHANGED temp_dir
    /\ UNCHANGED <<repo_url, repo_parts, lookup, original_content, analysis, result,
                   compiles, verdict, calls, completed, san>>

\* faulty variant: a rejected fix is reported but the run continues
Validate_no_abort ==
    /\ pc = "FixProposed"
    /\ ResultGet(K_fixed_code, JStr(<<>>)).t = "str"
    /\ \E outcome \in {"ok", "SyntaxError", "OtherError"} :
          LET v == validate_fixed_code(original_content,
                                       ResultGet(K_fixed_code, JStr(<<>>)).s, outcome)
          IN  /\ verdict' = v
              /\ compiles' = outcome
              /\ IF v.raised THEN Finish("Failed")
                 ELSE pc' = "Validated" /\ UNCHANGED temp_dir
    /\ UNCHANGED <<repo_url, repo_parts, lookup, original_content, analysis, result,
                   calls, completed, san>>

\* lines 253-258; fixed_code.lower() raises when fixed_code is no str
Validate ==
    /\ pc = "FixProposed"
    /\ IF ResultGet(K_fixed_code, JStr(<<>>)).t # "str"
       THEN Finish("Failed") /\ UNCHANGED <<verdict, compiles>>
       ELSE \E outcome \in {"ok", "SyntaxError", "OtherError"} :
               LET v == validate_fixed_code(original_content,
                                            ResultGet(K_fixed_code, JStr(<<>>)).s, outcome)
               IN  /\ verdict' = v
                   /\ compiles' = outcome
                   /\ IF v.raised THEN Finish("Failed")
                      ELSE IF ~v.ok THEN Finish("ValidationRejected")
                      ELSE pc' = "Validated" /\ UNCHANGED temp_dir
    /\ UNCHANGED <<repo_url, repo_parts, lookup, original_content, analysis, result,
                   calls, completed, san>>

\* one side-effecting call made at position from: it returns, and the run
\* moves to position to, or it raises, and the run ends at line 309
Call(name, from, to) ==
    /\ pc = from
    /\ calls' = Append(calls, name)
    /\ \/ completed' = Append(completed, name) /\ pc' = to /\ UNCHANGED temp_dir
       \/ UNCHANGED completed /\ Finish("Failed")
    /\ UNCHANGED <<repo_url, repo_parts, lookup, original_content, analysis, result,
                   compiles, verdict, san>>

\* a statement between two calls raises: the run ends with no further call
Raise(from) ==
    /\ pc = from
    /\ Finish("Failed")
    /\ UNCHANGED <<repo_url, repo_parts, lookup, original_content, analysis, result,
                   compiles, verdict, calls, completed, san>>

\* the value of issues at line 245
Issues ==
    ResultGet(K_issues_found, JList(<<>>))

\* lines 260-265: list the issues, overwrite the file
WriteFile ==
    /\ pc = "Validated"
    /\ IF HasLen(Issues) THEN Call("write", "Validated", "Written") ELSE Raise("Validated")

\* lines 269-271
Checkout ==
    /\ pc = "Written"
    /\ Call("checkout", "Written", "Branched")

\* line 273
Add ==
    /\ pc = "Branched"
    /\ Call("add", "Branched", "Staged")

\* ', '.join(issues[:3]) is defined: issues is a str or a list of str
Joinable(issues) ==
    \/ issues.t = "str"
    \/ issues.t = "list" /\ \A k \in 1..Len(issues.items) :
                               k <= 3 => issues.items[k].t = "str"

\* lines 274-277
Commit ==
    /\ pc = "Staged"
    /\ IF Joinable(Issues) THEN Call("commit", "Staged", "Committed") ELSE Raise("Staged")

\* faulty variant: a failed push is not raised, the run goes on
Push_unchecked ==
    /\ pc = "Committed"
    /\ calls' = Append(calls, "push")
    /\ \/ completed' = Append(completed, "push")
       \/ UNCHANGED completed
    /\ pc' = "Pushed"
    /\ UNCHANGED <<repo_url, repo_parts, lookup, temp_dir, original_content, analysis,
                   result, compiles, verdict, san>>

\* lines 282-283
Push ==
    /\ pc = "Committed"
    /\ Call("push", "Committed", "Pushed")

\* lines 299-307 and the end of the with block
CreatePull ==
    /\ pc = "Pushed"
    /\ calls' = Append(calls, "create_pull")
    /\ \/ completed' = Append(completed, "create_pull") /\ Finish("ChangeRequestOpened")
       \/ UNCHANGED completed /\ Finish("Failed")
    /\ UNCHANGED <<repo_url, repo_parts, lookup, original_content, analysis, result,
                   compiles, verdict, san>>

Next ==
    \/ ResolveRepo
    \/ GetRepo
    \/ CloneAndRead
    \/ Analyze
    \/ Parse
    \/ CheckIssues
    \/ CheckFix
    \/ Validate
    \/ WriteFile
    \/ Checkout
    \/ Add
    \/ Commit
    \/ Push
    \/ CreatePull

Spec ==
    Init /\ [][Next]_vars

(***************************************************************************)
(* The parser alone: a run from the point where a response has arrived     *)
(***************************************************************************)
InitParse ==
    /\ pc = "AnalysisReceived"
    /\ repo_url = <<>>
    /\ repo_parts = <<>>
    /\ lookup = <<>>
    /\ temp_dir = "held"
    /\ original_content = <<>>
    /\ analysis \in Payloads
    /\ result = JNull
    /\ compiles = "unset"
    /\ verdict = NoVerdict
    /\ calls = <<>>
    /\ completed = <<>>
    /\ san = <<>>

NextParse ==
    \/ Parse
    \/ CheckIssues
    \/ CheckFix

SpecParse ==
    InitParse /\ [][NextParse]_vars

(***************************************************************************)
(* The validator alone: a run from the point where a fix is proposed       *)
(***************************************************************************)
InitValidate ==
    /\ pc = "FixProposed"
    /\ repo_url = <<>>
    /\ repo_parts = <<>>
    /\ lookup = <<>>
    /\ temp_dir = "held"
    /\ original_content \in ValInputs
    /\ \E fixed \in ValInputs \ {<<>>} :
          analysis = Object(<<Field(K_has_issues, T_true),
                              Field(K_fixed_code, Quoted(fixed))>>, <<"}">>)
    /\ result = parse_llm_response(analysis).result
    /\ compiles = "unset"
    /\ verdict = NoVerdict
    /\ calls = <<>>
    /\ completed = <<>>
    /\ san = <<>>

NextValidate ==
    Validate

SpecValidate ==
    InitValidate /\ [][NextValidate]_vars

(***************************************************************************)
(* The sanitizer alone, applied to its own output                          *)
(***************************************************************************)
InitSanitize ==
    /\ pc = "Sanitizer"
    /\ repo_url = <<>>
    /\ repo_parts = <<>>
    /\ lookup = <<>>
    /\ temp_dir = "none"
    /\ original_content = None
    /\ analysis = None
    /\ result = JNull
    /\ compiles = "unset"
    /\ verdict = NoVerdict
    /\ calls = <<>>
    /\ completed = <<>>
    /\ \E x \in SanInputs : san = <<x>>

SanitizeAgain ==
    /\ pc = "Sanitizer"
    /\ Len(san) < 3
    /\ san' = Append(san, sanitize(san[Len(san)]))
    /\ UNCHANGED <<pc, repo_url, repo_parts, lookup, temp_dir, original_content,
                   analysis, result, compiles, verdict, calls, completed>>

NextSanitize ==
    SanitizeAgain

SpecSanitize ==
    InitSanitize /\ [][NextSanitize]_vars

(***************************************************************************)
(* Properties                                                              *)
(***************************************************************************)
IsPrefix(a, b) ==
    Len(a) <= Len(b) /\ a = SubSeq(b, 1, Len(a))

FixedOf(res) ==
    IF HasKey(res, K_fixed_code) THEN DictGet(res, K_fixed_code) ELSE JStr(<<>>)

HasIssuesOf(res) ==
    IF HasKey(res, K_has_issues) THEN DictGet(res, K_has_issues) ELSE JBool(FALSE)

\* every gate of lines 217-258 was passed
GatesPassed ==
    /\ original_content # None
    /\ analysis # None /\ analysis # <<>>
    /\ result.t = "dict"
    /\ Truthy(HasIssuesOf(result))
    /\ Truthy(FixedOf(result))
    /\ verdict.ok

\* C1: no side-effecting call is made unless the file was fetched, the
\* analysis returned a response, has_issues is true, fixed_code is non-empty
\* and validate accepted; a response without issues ends the run in NoIssues
\* with no call made.
C1_SideEffectsGated ==
    /\ calls # <<>> => GatesPassed
    /\ pc = "NoIssues" => calls = <<>>
    /\ (result.t = "dict" /\ ~Truthy(HasIssuesOf(result)))
          => pc \in {"DiagnosisParsed", "NoIssues"} /\ calls = <<>>

C1_Witness ==
    /\ calls = <<"write">>
    /\ GatesPassed

\* C2: the calls made are a prefix of write, checkout, add, commit, push,
\* create_pull, each made once and in that order; all six have completed
\* exactly when the run is in ChangeRequestOpened; a call that raises is the
\* last call and ends the run in Failed; completed steps are never undone.
C2_OrderedOnceNoRollback ==
    /\ [](/\ IsPrefix(calls, Steps)
          /\ IsPrefix(completed, calls)
          /\ (completed = Steps) <=> (pc = "ChangeRequestOpened")
          /\ completed # calls => pc = "Failed" /\ Len(calls) = Len(completed) + 1)
    /\ [][/\ IsPrefix(completed, completed')
          /\ IsPrefix(calls, calls')
          /\ pc \in Terminal => calls' = calls]_vars

C2_Witness ==
    /\ pc = "Failed"
    /\ calls = Steps
    /\ completed = <<"write", "checkout", "add", "commit", "push">>

\* C3: no run ends with the temporary clone directory still held.
C3_WorkingAreaReleased ==
    pc \in Terminal => temp_dir # "held"

C3_Witness ==
    /\ pc = "Failed"
    /\ temp_dir = "released"
    /\ calls = <<"write", "checkout">>

\* C4: parse_llm_response never raises, so no run ends in the parse-failed
\* abort.
C4_ParseNeverRaises ==
    pc # "ParseFailed"

\* payloads decoded by the manual parser whose fixed_code value is not a
\* complete quoted string: nothing after the key, or an opening quote and
\* no closing one
IncompleteFixed ==
    {Object(<<h, i, f>>, c) :
        h \in HasFields, i \in {<<>>, Issues_ab},
        f \in {Field(K_fixed_code, <<>>), Field(K_fixed_code, QUOTE \o Code_x)},
        c \in Closers}

\* C5: when the fixed_code value of an undecodable payload is not a
\* complete quoted string, has_issues is recovered by the substring test,
\* fixed_code stays absent, and the run does not get past NoFixProvided.
C5_NoFabricatedFix ==
    (analysis \in IncompleteFixed /\ pc # "AnalysisReceived")
       => /\ result.t = "dict"
          /\ HasIssuesOf(result) = JBool(Contains(Lower(analysis), T_true))
          /\ ~HasKey(result, K_fixed_code)
          /\ pc # "FixProposed"

\* the undecodable payloads with the three fields, in either member order:
\* the fixed_code value has unescaped inner quotes
Undecodable(texts) ==
    LET h == Field(K_has_issues, T_true)
        i == Field(K_issues_found, ArrayText([k \in 1..Len(texts) |-> Quoted(texts[k])]))
        f == Field(K_fixed_code, Quoted(<<"p", "(", "\"", "q", "\"", ")">>))
    IN  {Object(<<h, i, f>>, <<"}">>), Object(<<f, i, h>>, <<"}">>)}

\* C6: for an undecodable payload that holds has_issues true, a list of
\* string issues and a non-empty fixed_code, the manual parser returns
\* has_issues true, exactly the listed issues in order, and the fixed_code
\* value.
C6_FallbackEquivalence ==
    \A texts \in UNION {[1..k -> IssueTexts] : k \in 0..MaxIssues} :
        (analysis \in Undecodable(texts) /\ pc # "AnalysisReceived")
           => /\ result.t = "dict"
              /\ HasIssuesOf(result) = JBool(TRUE)
              /\ HasKey(result, K_issues_found)
              /\ DictGet(result, K_issues_found) = JList([k \in 1..Len(texts) |-> JStr(texts[k])])
              /\ FixedOf(result) = JStr(<<"p", "(", "\"", "q", "\"", ")">>)

\* the fixed_code validate_fixed_code was given
FixedArg ==
    FixedOf(result).s

\* C7: a fix that contains a stub phrase, compared case-insensitively, which
\* the original does not contain, is never accepted.
C7_StubPhraseRejected ==
    pc # "FixProposed"
       => \A k \in 1..Len(placeholders) :
             (/\ Contains(Lower(FixedArg), Lower(placeholders[k]))
              /\ ~Contains(Lower(original_content), Lower(placeholders[k])))
                => ~verdict.ok

\* the five stub phrases the loop of lines 174-177 can match
LowerPhrases ==
    {placeholders[k] : k \in 1..5}

NewStub ==
    \E ph \in LowerPhrases :
        Contains(Lower(FixedArg), ph) /\ ~Contains(Lower(original_content), ph)

\* C8: a fix shorter than half the original (2*len(fixed) < len(original))
\* is rejected, a fix whose syntax check fails is rejected, a fix of exactly
\* half the length is not rejected for its length, and the reason reported
\* is that of the first failing check in the order placeholder, shrinkage,
\* syntax.
C8_ShrinkageAndOrder ==
    pc # "FixProposed"
       => /\ 2 * Len(FixedArg) < Len(original_content) => ~verdict.ok
          /\ compiles # "ok" => ~verdict.ok
          /\ NewStub => verdict.reason = "placeholder"
          /\ verdict.reason = "too_short" <=>
                (2 * Len(FixedArg) < Len(original_content) /\ verdict.reason # "placeholder")
          /\ verdict.reason = "syntax" <=>
                (/\ compiles = "SyntaxError"
                 /\ verdict.reason # "placeholder"
                 /\ 2 * Len(FixedArg) >= Len(original_content))
          /\ verdict.ok <=>
                (/\ compiles = "ok"
                 /\ verdict.reason = "none"
                 /\ 2 * Len(FixedArg) >= Len(original_content))

C8_Witness ==
    /\ pc = "ValidationRejected"
    /\ verdict.reason = "too_short"
    /\ Len(original_content) = 2 * Len(FixedArg) + 1
    /\ compiles = "ok"

\* C9: sanitizing a sanitized fixed_code changes nothing, and content with
\* no fence marker is returned as it is.
C9_SanitizeIdempotent ==
    /\ Len(san) = 3 => san[3] = san[2]
    /\ (Len(san) >= 2 /\ ~Contains(san[1], triple_backtick)) => san[2] = san[1]

C9_Witness ==
    /\ Len(san) = 3
    /\ Contains(san[1], FencePython)
    /\ Cardinality(Occurrences(san[1], triple_backtick, 0, Len(san[1]))) >= 3
    /\ san[2] # san[1]

\* C10: a URL https://github.com/<owner>/<name>, optionally followed by
\* .git and/or a slash, resolves to exactly (owner, name), and that is the
\* repository looked up.
C10_ExactOwnerAndName ==
    \A o \in Owners, n \in Names, x \in Suffixes :
        (repo_url = UrlPrefix \o o \o <<"/">> \o n \o x /\ pc # "Start")
           => /\ repo_parts = <<o, n>>
              /\ lookup # <<>> => lookup = o \o <<"/">> \o n

====
